---- MODULE Spec2Model ----
(***************************************************************************)
(* NotificationService (binibaby/Capstone-App): the client-side singleton  *)
(* that keeps the notification list in AsyncStorage under the key          *)
(* 'notifications', prefers the remote feed when it is not debounced,      *)
(* filters every list by the current user and fans updates out to the      *)
(* subscribed listeners.                                                   *)
(*                                                                         *)
(* Every async method is modelled as a process that advances one await at  *)
(* a time (pc), so that other calls, the clock and the identity provider   *)
(* can act between two awaits, as they can in the JavaScript event loop.   *)
(***************************************************************************)
EXTENDS Integers, Sequences, FiniteSets, TLC

VARIABLES
  clock,            \* Date.now(), in milliseconds
  lastApiCallTime,  \* private lastApiCallTime
  user,             \* what authService.getCurrentUser() resolves to now
  store,            \* AsyncStorage: the value under the key 'notifications'
  listeners,        \* private listeners: the callbacks, in push order
  closures,         \* the unsubscribe closures handed out by subscribe
  procs,            \* the async calls in flight: method, pc and locals
  limit,            \* how many calls the callers keep in flight at once
  ev                \* what the last step did (return value, broadcast, remote call)

vars == <<clock, lastApiCallTime, user, store, listeners, closures, procs, limit, ev>>

(***************************************************************************)
(* Bounds of the model.                                                    *)
(***************************************************************************)
MaxTicks == 1       \* clock advances per behaviour
MaxStore == 2       \* append is not called on a stored list this long
MaxSubs == 2        \* subscribe calls per behaviour

(***************************************************************************)
(* JavaScript values.                                                      *)
(***************************************************************************)
Undefined == "<undefined>"
Falsy(s) == s \in {Undefined, ""}

\* Strings that the code searches with includes() are sequences of characters.
Includes(s, w) ==
  \E i \in 0 .. (Len(s) - Len(w)) : SubSeq(s, i + 1, i + Len(w)) = w

confirmedWord == <<"c","o","n","f","i","r","m","e","d">>
cancelledWord == <<"c","a","n","c","e","l","l","e","d">>
defaultTitle == <<"N","o","t","i","f","i","c","a","t","i","o","n">>

\* data?: any -- absent (undefined), null, or an object whose status is read.
UndefData == [kind |-> "undefined", status |-> Undefined]
NullData == [kind |-> "null", status |-> Undefined]
ObjData(s) == [kind |-> "object", status |-> s]
\* notification.data?.status
DataStatus(d) == IF d.kind = "object" THEN d.status ELSE Undefined

\* A notification object is a function from the keys it owns to their values;
\* reading a key it does not own yields undefined.
OptionalKeys == {"action", "data", "userId", "avatar"}
Prop(n, k) ==
  IF k \in DOMAIN n THEN n[k]
  ELSE IF k = "data" THEN UndefData ELSE Undefined

\* Number.prototype.toString() / Date.now().toString()
NumToString(t) == ToString(t)
\* new Date().toLocaleString(): a display string of the instant
ToLocaleString(t) == "locale " \o ToString(t)

(***************************************************************************)
(* JSON.stringify / JSON.parse of the stored array: stringify drops every  *)
(* key whose value is undefined; parse gives back objects owning the keys  *)
(* that were written.                                                      *)
(***************************************************************************)
StringifyOne(n) ==
  LET keep == {k \in DOMAIN n : ~(k \in OptionalKeys /\ k # "data" /\ n[k] = Undefined)
                                /\ ~(k = "data" /\ n[k].kind = "undefined")}
  IN [k \in keep |-> n[k]]
JSONStringify(list) == [json |-> [i \in 1 .. Len(list) |-> StringifyOne(list[i])]]
JSONParse(text) == text.json

\* AsyncStorage value: null when the key is absent, else the JSON text.
NoItem == [present |-> FALSE, text |-> [json |-> <<>>]]
Item(text) == [present |-> TRUE, text |-> text]
\* stored ? JSON.parse(stored) : []
ParseStored(stored) == IF stored.present THEN JSONParse(stored.text) ELSE <<>>
\* The canonical list: what the durable store holds.
Canonical == ParseStored(store)

(***************************************************************************)
(* authService.getCurrentUser(): null, a user, or a rejected promise.      *)
(***************************************************************************)
NoUser == [kind |-> "null", id |-> Undefined, token |-> Undefined,
           userType |-> Undefined, role |-> Undefined]
Rejects == [kind |-> "rejects", id |-> Undefined, token |-> Undefined,
            userType |-> Undefined, role |-> Undefined]
MkUser(id, token, userType, role) ==
  [kind |-> "user", id |-> id, token |-> token, userType |-> userType, role |-> role]

\* A variant of the role test that looks at userType only.
isPetSitterByUserType(u) == u.userType = "pet_sitter"

\* user.userType === 'pet_sitter' || user.role === 'pet_sitter'
isPetSitter(u) == u.userType = "pet_sitter" \/ u.role = "pet_sitter"

\* Variants of the filter callback: one without the userId rule, one whose
\* pet-owner rule reads data.status only and not the title.
matchesUntargeted(u, n) ==
  IF isPetSitter(u)
    THEN n.type \in {"booking", "message", "review", "system"}
    ELSE \/ /\ n.type = "booking"
            /\ \/ DataStatus(Prop(n, "data")) = "confirmed"
               \/ DataStatus(Prop(n, "data")) = "cancelled"
               \/ Includes(n.title, confirmedWord)
               \/ Includes(n.title, cancelledWord)
         \/ n.type = "message" \/ n.type = "system"

matchesStatusOnly(u, n) ==
  IF ~Falsy(Prop(n, "userId")) THEN Prop(n, "userId") = u.id
  ELSE IF isPetSitter(u)
    THEN n.type \in {"booking", "message", "review", "system"}
    ELSE \/ /\ n.type = "booking"
            /\ \/ DataStatus(Prop(n, "data")) = "confirmed"
               \/ DataStatus(Prop(n, "data")) = "cancelled"
         \/ n.type = "message" \/ n.type = "system"

\* The callback of notifications.filter(...) in filterNotificationsByUserType.
matches(u, n) ==
  IF ~Falsy(Prop(n, "userId")) THEN Prop(n, "userId") = u.id
  ELSE IF isPetSitter(u)
    THEN n.type \in {"booking", "message", "review", "system"}
    ELSE LET isBookingWithStatus ==
               /\ n.type = "booking"
               /\ \/ DataStatus(Prop(n, "data")) = "confirmed"
                  \/ DataStatus(Prop(n, "data")) = "cancelled"
                  \/ Includes(n.title, confirmedWord)
                  \/ Includes(n.title, cancelledWord)
             isMessageOrSystem == n.type = "message" \/ n.type = "system"
         IN isBookingWithStatus \/ isMessageOrSystem

\* A variant of FilterSeq that returns the matching entries last to first.
RECURSIVE FilterSeqBackwards(_, _)
FilterSeqBackwards(u, list) ==
  IF list = <<>> THEN <<>>
  ELSE FilterSeqBackwards(u, Tail(list))
         \o (IF matches(u, Head(list)) THEN <<Head(list)>> ELSE <<>>)

\* Array.prototype.filter: the elements that pass, in their order.
RECURSIVE FilterSeq(_, _)
FilterSeq(u, list) ==
  IF list = <<>> THEN <<>>
  ELSE IF matches(u, Head(list)) THEN <<Head(list)>> \o FilterSeq(u, Tail(list))
  ELSE FilterSeq(u, Tail(list))

\* A variant of the filter that returns nothing when no user is resolved.
filterFailClosed(u, notifications) ==
  IF u.kind = "user" THEN FilterSeq(u, notifications) ELSE <<>>

\* filterNotificationsByUserType, with `u` what getCurrentUser resolved to:
\* no user, or a failure of the provider, returns the input unchanged.
filterNotificationsByUserType(u, notifications) ==
  IF u.kind = "user" THEN FilterSeq(u, notifications) ELSE notifications

(***************************************************************************)
(* fetchNotificationsFromAPI.                                              *)
(***************************************************************************)
apiCallDebounceMs == 3000

\* A variant of the debounce check that lets every call through.
NeverDebounced(now, last) == FALSE

\* now - this.lastApiCallTime < this.apiCallDebounceMs
Debounced(now, last) == now - last < apiCallDebounceMs

\* let token = user.token; if (!token) { '5' and '21' get a hardcoded token }
hardToken5 == "64|dTO5"
hardToken21 == "67|uCto"
TokenFor(u) ==
  IF ~Falsy(u.token) THEN u.token
  ELSE IF u.id = "5" THEN hardToken5
  ELSE IF u.id = "21" THEN hardToken21
  ELSE Undefined

\* makeApiCall is reached: a user is resolved and a token is at hand.
ReachesRemote(u) == u.kind = "user" /\ ~Falsy(TokenFor(u))

\* One record of data.notifications, in the remote schema. A key the server
\* leaves out reads as undefined ("" for title, which is searched as a string).
ApiNotif(id, type, title, message, created_at, read_at, data) ==
  [id |-> id, type |-> type, title |-> title, message |-> message,
   created_at |-> created_at, read_at |-> read_at, data |-> data]

\* A variant of the conversion that takes every remote record for unread.
ConvertApiNotifUnread(apiNotif) ==
  [id |-> NumToString(apiNotif.id),
   type |-> IF Falsy(apiNotif.type) THEN "system" ELSE apiNotif.type,
   title |-> IF apiNotif.title = <<>> THEN defaultTitle ELSE apiNotif.title,
   message |-> IF Falsy(apiNotif.message) THEN "" ELSE apiNotif.message,
   time |-> apiNotif.created_at,
   isRead |-> FALSE,
   data |-> IF apiNotif.data.kind = "object" THEN apiNotif.data ELSE NullData]

\* data.notifications.map((apiNotif) => ({ ... }))
ConvertApiNotif(apiNotif) ==
  [id |-> NumToString(apiNotif.id),
   type |-> IF Falsy(apiNotif.type) THEN "system" ELSE apiNotif.type,
   title |-> IF apiNotif.title = <<>> THEN defaultTitle ELSE apiNotif.title,
   message |-> IF Falsy(apiNotif.message) THEN "" ELSE apiNotif.message,
   time |-> apiNotif.created_at,
   isRead |-> ~Falsy(apiNotif.read_at),
   data |-> IF apiNotif.data.kind = "object" THEN apiNotif.data ELSE NullData]

\* What makeApiCall and response.json() can do: throw, answer with a
\* non-success status, answer with a body that does not parse, or answer with
\* { success, notifications }.
Response(kind, success, hasList, list) ==
  [kind |-> kind, success |-> success, hasList |-> hasList, notifications |-> list]
NoResponse == Response("none", FALSE, FALSE, <<>>)

\* The list fetchNotificationsFromAPI returns once the debounce check has
\* passed, for the user `u` and the response `resp`.
FetchResult(u, resp) ==
  IF u.kind # "user" THEN <<>>                  \* no user, or the catch block
  ELSE IF Falsy(TokenFor(u)) THEN <<>>          \* no token available
  ELSE IF resp.kind = "throws" THEN <<>>        \* catch block
  ELSE IF resp.kind = "status" THEN <<>>        \* !response.ok
  ELSE IF resp.kind = "badjson" THEN <<>>       \* response.json() throws
  ELSE IF resp.success /\ resp.hasList
    THEN [i \in 1 .. Len(resp.notifications) |-> ConvertApiNotif(resp.notifications[i])]
    ELSE <<>>

\* Why the fetch returned what it returned.
FetchWhy(u, resp) ==
  IF u.kind = "null" THEN "nouser"
  ELSE IF u.kind = "rejects" THEN "userfails"
  ELSE IF Falsy(TokenFor(u)) THEN "notoken"
  ELSE IF resp.kind # "body" THEN resp.kind
  ELSE IF ~(resp.success /\ resp.hasList) THEN "nosuccess"
  ELSE IF resp.notifications = <<>> THEN "zero"
  ELSE "fetched"

(***************************************************************************)
(* The inputs the callers and the environment draw from.                   *)
(***************************************************************************)
\* Users of the identity provider: a sitter without a token of his own (id
\* '5' has a hardcoded one), an owner with a token, an owner without.
sitter5 == MkUser("5", Undefined, "pet_sitter", Undefined)
owner7 == MkUser("7", "tok7", Undefined, "pet_owner")
owner9 == MkUser("9", Undefined, "pet_owner", Undefined)
Identities == {NoUser, sitter5, owner7, owner9}

\* Arguments of addNotification: Omit<Notification, 'id' | 'time' | 'isRead'>.
pMessage == [type |-> "message", title |-> <<"H","i">>, message |-> "hello",
             userId |-> Undefined]
pReview == [type |-> "review", title |-> <<"R","e","v">>, message |-> "5 stars",
            data |-> ObjData(Undefined)]
\* Argument of addNotificationForUser, as createBookingNotification builds it.
pBooking == [type |-> "booking", title |-> <<"N","e","w">>, message |-> "book",
             action |-> "View Request", data |-> ObjData(Undefined)]
NoInput == [type |-> ""]
PlainInputs == {pMessage}
TargetInputs == {pBooking}
TargetIds == {"5"}

\* Inputs of the identity filter taken on its own: the identities the provider
\* can resolve to (a sitter by userType, a sitter by role, owners, nobody, a
\* failure), and notifications of every type, with and without a userId,
\* with and without a status in data or a status word in the title.
sitterByRole == MkUser("7", "tok7", Undefined, "pet_sitter")
owner5 == MkUser("5", "tok5", "pet_owner", "pet_owner")
FilterUsers == {NoUser, Rejects, sitter5, sitterByRole, owner5, owner7, owner9}

FilterTypes == {"booking", "message", "review", "system"}
FilterTargets == {Undefined, "", "5", "7"}
titleConfirmed == <<"B"," ">> \o confirmedWord
titleCancelled == cancelledWord \o <<"!">>
titleCapital == <<"C","o","n","f","i","r","m","e","d">>
FilterShapes ==
  {<<UndefData, <<"X">>>>, <<NullData, <<"X">>>>, <<ObjData("pending"), <<"X">>>>,
   <<ObjData("confirmed"), <<"X">>>>, <<ObjData("cancelled"), <<"X">>>>,
   <<UndefData, titleConfirmed>>, <<UndefData, titleCancelled>>,
   <<UndefData, titleCapital>>}

Sample(type, userId, shape) ==
  [id |-> "n", type |-> type, title |-> shape[2], message |-> "m", time |-> "t",
   isRead |-> FALSE, data |-> shape[1], userId |-> userId]

Samples ==
  {Sample(type, userId, shape) :
     type \in FilterTypes, userId \in FilterTargets, shape \in FilterShapes}
\* Second elements of the two-element lists.
SecondSamples ==
  {Sample("review", "5", <<UndefData, <<"X">>>>),
   Sample("message", Undefined, <<UndefData, <<"X">>>>),
   Sample("booking", Undefined, <<UndefData, <<"X">>>>)}
FilterInputs ==
  {<<>>} \cup {<<a>> : a \in Samples}
         \cup {<<a, b>> : a \in Samples, b \in SecondSamples}

\* What the remote endpoint can hold: the record of the spec's scenario, and
\* one that leaves type, title, message and data out and has been read.
api7 == ApiNotif(7, "booking", <<"X">>, "Y", "t0", Undefined, UndefData)
api8 == ApiNotif(8, Undefined, <<>>, Undefined, "t1", "t2", ObjData("pending"))
RemoteLists == {<<>>, <<api7>>, <<api7, api8>>}
Responses ==
  {Response("throws", FALSE, FALSE, <<>>), Response("status", FALSE, FALSE, <<>>),
   Response("badjson", FALSE, FALSE, <<>>), Response("body", FALSE, TRUE, <<api7>>)}
  \cup {Response("body", TRUE, TRUE, l) : l \in RemoteLists}
\* The PUT of markAsReadOnAPI / markAllAsReadOnAPI: 2xx, another status, or a throw.
PutOutcomes == {"ok", "status", "throws"}

Callbacks == {"f", "g"}
\* Callbacks that throw when they are invoked.
FailingCallbacks == {"h"}
AbsentId == "no-such-id"
Range(list) == {list[i] : i \in 1 .. Len(list)}
IdsOf(list) == {n.id : n \in Range(list)}

GetOps == {"getNotifications", "refreshNotifications", "getUnreadCount"}
MarkOps == {"markAsRead", "markAllAsRead"}
ProcIds == {1, 2}

(***************************************************************************)
(* Calls in flight and the record of the last step.                        *)
(***************************************************************************)
NoNotif == [id |-> Undefined]
\* A call in flight: the method, where it stands, its arguments (id, input,
\* target) and its locals (new, api, loc, saved, and remote: what the backend
\* did with the PUT of a mark method). pre, after and cleared are kept for the
\* record only: the canonical list when the call was made, the record an
\* append returned in the step right before the call, and whether
\* clearAllNotifications returned in the step right before the call. at is
\* the reading of Date.now() in the debounce check of a list or a refresh and
\* attempted whether the call passed that check; contacted is kept for
\* getNotifications: whether its fetch has reached makeApiCall. For a refresh,
\* id is the argument of the deleteNotification that returned in the step
\* right before the call.
Idle == [op |-> "idle", pc |-> "idle", id |-> Undefined, input |-> NoInput,
         target |-> Undefined, new |-> NoNotif, api |-> <<>>, loc |-> <<>>,
         saved |-> FALSE, remote |-> "", pre |-> <<>>, after |-> NoNotif,
         cleared |-> FALSE, at |-> 0, attempted |-> FALSE, contacted |-> FALSE]

NoEv == [kind |-> "none", op |-> "", step |-> "", path |-> "", why |-> "",
         id |-> Undefined, input |-> NoInput, target |-> Undefined,
         list |-> <<>>, count |-> 0, value |-> NoNotif,
         pre |-> <<>>, after |-> NoNotif, cleared |-> FALSE,
         wrote |-> FALSE, saved |-> FALSE,
         bcast |-> FALSE, blist |-> <<>>, calls |-> <<>>,
         contacted |-> FALSE, resp |-> NoResponse, api |-> <<>>, user |-> NoUser,
         closure |-> 0, again |-> FALSE, before |-> <<>>, over |-> <<>>,
         at |-> 0]

\* A call can start: the callers keep at most `limit` calls in flight, and a
\* new call takes the lowest free slot.
FreeSlot(p) ==
  /\ p <= limit
  /\ procs[p].pc = "idle"
  /\ \A q \in ProcIds : q < p => procs[q].pc # "idle"

\* forEach stops at the first listener that throws, and the exception leaves
\* notifyListeners.
ListenerThrows == \E i \in 1 .. Len(listeners) : listeners[i] \in FailingCallbacks
Invoked ==
  IF ListenerThrows
    THEN CHOOSE i \in 1 .. Len(listeners) :
           /\ listeners[i] \in FailingCallbacks
           /\ \A j \in 1 .. (i - 1) : listeners[j] \notin FailingCallbacks
    ELSE Len(listeners)
\* How a method without a try around notifyListeners ends.
AfterNotify == IF ListenerThrows THEN "threw" ELSE "returned"

\* notifyListeners(notifications): listeners.forEach(listener => listener(notifications))
notifyListeners(notifications) ==
  [i \in 1 .. Invoked |-> [listener |-> listeners[i], arg |-> notifications]]

\* A variant of the count that counts the entries that have been read.
ReadCount(list) == Cardinality({i \in 1 .. Len(list) : list[i].isRead})

\* notifications.filter(n => !n.isRead).length
UnreadCount(list) == Cardinality({i \in 1 .. Len(list) : ~list[i].isRead})

TypeOK ==
  /\ clock \in Nat /\ lastApiCallTime \in Nat
  /\ user \in Identities
  /\ store.present \in BOOLEAN
  /\ limit \in ProcIds
  /\ \A p \in ProcIds : procs[p].pc \in
       {"idle", "fetch", "save", "filter", "local", "retry", "read", "write", "notify"}

(***************************************************************************)
(* Initial state: the singleton as getInstance() constructs it, nothing    *)
(* stored yet, the clock at some instant later than one debounce interval  *)
(* after the epoch.                                                        *)
(***************************************************************************)
StartOfTime == 2 * apiCallDebounceMs

InitService ==
  /\ clock = StartOfTime
  /\ lastApiCallTime = 0
  /\ user \in Identities
  /\ store = NoItem
  /\ listeners = <<>>
  /\ closures = <<>>
  /\ procs = [p \in ProcIds |-> Idle]
  /\ ev = NoEv

\* The identity filter on its own: any identity the provider can resolve to.
InitFilter ==
  /\ clock = StartOfTime
  /\ lastApiCallTime = 0
  /\ user \in FilterUsers
  /\ store = NoItem
  /\ listeners = <<>>
  /\ closures = <<>>
  /\ procs = [p \in ProcIds |-> Idle]
  /\ ev = NoEv
  /\ limit = 1

\* The callers await each call before they issue the next one.
Init == InitService /\ limit = 1
\* The callers issue a second call while the first is in flight.
InitConc == InitService /\ limit = 2

(***************************************************************************)
(* The environment: the clock and the identity provider.                   *)
(***************************************************************************)
Ticks == ((clock - StartOfTime) \div apiCallDebounceMs)
           + ((clock - StartOfTime) % apiCallDebounceMs)

Tick ==
  /\ Ticks < MaxTicks
  /\ \E d \in {1, apiCallDebounceMs} : clock' = clock + d
  /\ ev' = NoEv
  /\ UNCHANGED <<lastApiCallTime, user, store, listeners, closures, procs, limit>>

\* Login, logout, or the provider starting to fail.
SetUser ==
  /\ \E u \in Identities \ {user} : user' = u
  /\ ev' = NoEv
  /\ UNCHANGED <<clock, lastApiCallTime, store, listeners, closures, procs, limit>>

(***************************************************************************)
(* subscribe(listener) and the closure it returns.                         *)
(***************************************************************************)
\* this.listeners.push(listener); return () => { ... }
subscribe(listener) ==
  /\ Len(closures) < MaxSubs
  /\ listeners' = Append(listeners, listener)
  /\ closures' = Append(closures, [listener |-> listener, calls |-> 0])
  /\ ev' = [kind |-> "subscribed", closure |-> Len(closures) + 1,
            before |-> listeners] @@ NoEv
  /\ UNCHANGED <<clock, lastApiCallTime, user, store, procs, limit>>

\* this.listeners.filter(l => l !== listener)
RECURSIVE WithoutListener(_, _)
WithoutListener(ls, listener) ==
  IF ls = <<>> THEN <<>>
  ELSE IF Head(ls) # listener THEN <<Head(ls)>> \o WithoutListener(Tail(ls), listener)
  ELSE WithoutListener(Tail(ls), listener)

\* Invoking the i-th closure handed out (calls counts to "twice or more").
unsubscribe(i) ==
  /\ i \in 1 .. Len(closures)
  /\ listeners' = WithoutListener(listeners, closures[i].listener)
  /\ closures' = [closures EXCEPT ![i].calls = IF @ = 0 THEN 1 ELSE 2]
  /\ ev' = [kind |-> "unsubscribed", closure |-> i, again |-> closures[i].calls > 0,
            before |-> listeners] @@ NoEv
  /\ UNCHANGED <<clock, lastApiCallTime, user, store, procs, limit>>

Subscribe == \E cb \in Callbacks : subscribe(cb)
SubscribeFailing == \E cb \in FailingCallbacks : subscribe(cb)
Unsubscribe == \E i \in 1 .. MaxSubs : unsubscribe(i)

(***************************************************************************)
(* getNotifications / refreshNotifications / getUnreadCount.               *)
(* pc: fetch -> save -> filter (the remote list was not empty)             *)
(*     fetch -> local [-> retry]   (the fetch returned [])                 *)
(***************************************************************************)
\* What one finished call hands back to its caller.
Returned(p, path, result) ==
  [kind |-> "returned", op |-> procs[p].op, step |-> procs[p].pc, path |-> path,
   list |-> result, count |-> UnreadCount(result), user |-> user,
   pre |-> procs[p].pre, after |-> procs[p].after, api |-> procs[p].api,
   saved |-> procs[p].saved, cleared |-> procs[p].cleared,
   id |-> procs[p].id, at |-> procs[p].at] @@ NoEv

Threw(op, step) == [kind |-> "threw", op |-> op, step |-> step] @@ NoEv

\* A variant of CallGet in which the fetch of a refresh leaves lastApiCallTime
\* at the value the refresh reset it to.
CallGetLeavingReset(op) ==
  \E p \in ProcIds :
    /\ FreeSlot(p)
    /\ LET last == IF op = "refreshNotifications" THEN 0 ELSE lastApiCallTime
           now == clock
           skip == Debounced(now, last)
       IN /\ lastApiCallTime' = IF skip \/ op = "refreshNotifications" THEN last ELSE now
          /\ procs' = [procs EXCEPT ![p] =
                         [Idle EXCEPT !.op = op, !.pre = Canonical,
                                      !.at = now, !.attempted = ~skip,
                                      !.pc = IF skip THEN "local" ELSE "fetch"]]
          /\ ev' = [kind |-> "step", op |-> op, step |-> "call",
                    why |-> IF skip THEN "debounced" ELSE ""] @@ NoEv
    /\ UNCHANGED <<clock, user, store, listeners, closures, limit>>

\* The call itself, up to the first await: refresh resets lastApiCallTime,
\* then fetchNotificationsFromAPI reads the clock and makes the debounce check.
CallGet(op) ==
  \E p \in ProcIds :
    /\ FreeSlot(p)
    /\ LET last == IF op = "refreshNotifications" THEN 0 ELSE lastApiCallTime
           now == clock
           skip == Debounced(now, last)
       IN /\ lastApiCallTime' = IF skip THEN last ELSE now
          /\ procs' = [procs EXCEPT ![p] =
                         [Idle EXCEPT !.op = op, !.pre = Canonical,
                                      !.at = now, !.attempted = ~skip,
                                      !.id = IF /\ op = "refreshNotifications"
                                                /\ ev.kind = "returned"
                                                /\ ev.op = "deleteNotification"
                                               THEN ev.id ELSE Undefined,
                                      !.after = IF op = "getNotifications" /\ ev.kind = "returned"
                                                  THEN ev.value ELSE NoNotif,
                                      !.cleared = /\ op = "getNotifications"
                                                  /\ ev.kind = "returned"
                                                  /\ ev.op = "clearAllNotifications",
                                      !.pc = IF skip THEN "local" ELSE "fetch"]]
          /\ ev' = [kind |-> "step", op |-> op, step |-> "call",
                    why |-> IF skip THEN "debounced" ELSE ""] @@ NoEv
    /\ UNCHANGED <<clock, user, store, listeners, closures, limit>>

\* A variant of Fetch that takes the debounce timestamp back when the fetch
\* yields nothing.
FetchRollingBack(p) ==
  /\ procs[p].pc = "fetch"
  /\ \E resp \in (IF ReachesRemote(user) THEN Responses ELSE {NoResponse}) :
       LET api == FetchResult(user, resp)
           why == FetchWhy(user, resp)
       IN /\ procs' = [procs EXCEPT ![p].api = api,
                                    ![p].contacted = /\ procs[p].op = "getNotifications"
                                                     /\ ReachesRemote(user),
                                    ![p].pc = IF Len(api) > 0 THEN "save" ELSE "local"]
          /\ ev' = [kind |-> "step", op |-> procs[p].op, step |-> "fetch", why |-> why,
                    contacted |-> ReachesRemote(user), resp |-> resp, api |-> api,
                    user |-> user] @@ NoEv
          /\ lastApiCallTime' = IF Len(api) > 0 THEN lastApiCallTime ELSE 0
  /\ UNCHANGED <<clock, user, store, listeners, closures, limit>>

\* The rest of fetchNotificationsFromAPI: getCurrentUser, the token, makeApiCall.
Fetch(p) ==
  /\ procs[p].pc = "fetch"
  /\ \E resp \in (IF ReachesRemote(user) THEN Responses ELSE {NoResponse}) :
       LET api == FetchResult(user, resp)
           why == FetchWhy(user, resp)
       IN /\ procs' = [procs EXCEPT ![p].api = api,
                                    ![p].contacted = /\ procs[p].op = "getNotifications"
                                                     /\ ReachesRemote(user),
                                    ![p].pc = IF Len(api) > 0 THEN "save" ELSE "local"]
          /\ ev' = [kind |-> "step", op |-> procs[p].op, step |-> "fetch", why |-> why,
                    contacted |-> ReachesRemote(user), resp |-> resp, api |-> api,
                    user |-> user] @@ NoEv
  /\ UNCHANGED <<clock, lastApiCallTime, user, store, listeners, closures, limit>>

\* A variant of saveNotifications that merges the list into the stored one.
saveNotificationsMerged(p, notifications) ==
  /\ store' = Item(JSONStringify(notifications \o ParseStored(store)))
  /\ procs' = [procs EXCEPT ![p].pc = "filter", ![p].saved = TRUE]
  /\ ev' = [kind |-> "step", op |-> procs[p].op, step |-> "save", wrote |-> TRUE,
            bcast |-> TRUE, blist |-> notifications,
            calls |-> notifyListeners(notifications), user |-> user,
            pre |-> procs[p].pre] @@ NoEv

\* A variant of saveNotifications that leaves out of the remote list the
\* notification deleted right before the call.
saveNotificationsLessDeleted(p, notifications) ==
  /\ store' = Item(JSONStringify(SelectSeq(notifications,
                                           LAMBDA n : n.id # procs[p].id)))
  /\ procs' = [procs EXCEPT ![p].pc = "filter", ![p].saved = TRUE]
  /\ ev' = [kind |-> "step", op |-> procs[p].op, step |-> "save", wrote |-> TRUE,
            bcast |-> TRUE, blist |-> notifications,
            calls |-> notifyListeners(notifications), user |-> user,
            pre |-> procs[p].pre] @@ NoEv

\* saveNotifications(notifications): setItem, then notifyListeners with the
\* list it was given; a failing setItem is caught and nothing is broadcast,
\* and a listener that throws is caught by the same try.
saveNotifications(p, notifications) ==
  \E ok \in BOOLEAN :
    IF ok
      THEN /\ store' = Item(JSONStringify(notifications))
           /\ procs' = [procs EXCEPT ![p].pc = "filter", ![p].saved = TRUE]
           /\ ev' = [kind |-> "step", op |-> procs[p].op, step |-> "save", wrote |-> TRUE,
                     bcast |-> TRUE, blist |-> notifications,
                     calls |-> notifyListeners(notifications), user |-> user,
                     pre |-> procs[p].pre, over |-> Canonical] @@ NoEv
      ELSE /\ store' = store
           /\ procs' = [procs EXCEPT ![p].pc = "filter"]
           /\ ev' = [kind |-> "step", op |-> procs[p].op, step |-> "save",
                     blist |-> notifications, pre |-> procs[p].pre,
                     over |-> Canonical] @@ NoEv

Save(p) ==
  /\ procs[p].pc = "save"
  /\ saveNotifications(p, procs[p].api)
  /\ UNCHANGED <<clock, lastApiCallTime, user, listeners, closures, limit>>

\* return this.filterNotificationsByUserType(apiNotifications)
FilterReturn(p) ==
  /\ procs[p].pc = "filter"
  /\ ev' = Returned(p, "remote", filterNotificationsByUserType(user, procs[p].api))
  /\ procs' = [procs EXCEPT ![p] = Idle]
  /\ UNCHANGED <<clock, lastApiCallTime, user, store, listeners, closures, limit>>

\* A variant of Local that stores the empty remote result before it reads.
LocalPersisting(p) ==
  /\ procs[p].pc = "local"
  /\ \E ok \in BOOLEAN :
       IF ok
         THEN /\ ev' = Returned(p, "local", <<>>)
              /\ procs' = [procs EXCEPT ![p] = Idle]
         ELSE /\ ev' = [kind |-> "step", op |-> procs[p].op, step |-> "local",
                        why |-> "readfails"] @@ NoEv
              /\ procs' = [procs EXCEPT ![p].pc = "retry"]
  /\ store' = Item(JSONStringify(procs[p].api))
  /\ UNCHANGED <<clock, lastApiCallTime, user, listeners, closures, limit>>

\* Fallback to local storage: getItem, JSON.parse, filter. A failing read
\* goes to the catch block.
Local(p) ==
  /\ procs[p].pc = "local"
  /\ \E ok \in BOOLEAN :
       IF ok
         THEN /\ ev' = Returned(p, "local",
                         filterNotificationsByUserType(user, ParseStored(store)))
              /\ procs' = [procs EXCEPT ![p] = Idle]
         ELSE /\ ev' = [kind |-> "step", op |-> procs[p].op, step |-> "local",
                        why |-> "readfails"] @@ NoEv
              /\ procs' = [procs EXCEPT ![p].pc = "retry"]
  /\ UNCHANGED <<clock, lastApiCallTime, user, store, listeners, closures, limit>>

\* A variant of the catch block without the inner try of getNotifications.
RetryUnguarded(p) ==
  /\ procs[p].pc = "retry"
  /\ \E ok \in BOOLEAN :
       IF ok
         THEN ev' = Returned(p, "retry",
                      filterNotificationsByUserType(user, ParseStored(store)))
         ELSE ev' = Threw(procs[p].op, "retry")
  /\ procs' = [procs EXCEPT ![p] = Idle]
  /\ UNCHANGED <<clock, lastApiCallTime, user, store, listeners, closures, limit>>

\* The catch block: the local read once more. getNotifications wraps it in a
\* second try and returns []; refreshNotifications does not.
Retry(p) ==
  /\ procs[p].pc = "retry"
  /\ \E ok \in BOOLEAN :
       IF ok
         THEN ev' = Returned(p, "retry",
                      filterNotificationsByUserType(user, ParseStored(store)))
         ELSE IF procs[p].op = "refreshNotifications"
           THEN ev' = Threw(procs[p].op, "retry")
           ELSE ev' = Returned(p, "empty", <<>>)
  /\ procs' = [procs EXCEPT ![p] = Idle]
  /\ UNCHANGED <<clock, lastApiCallTime, user, store, listeners, closures, limit>>

(***************************************************************************)
(* addNotification / addNotificationForUser / markAsRead / markAllAsRead / *)
(* deleteNotification: getItem, change the list, setItem, filter, notify.  *)
(* pc: [api ->] read -> write -> notify. None of them has a try around the *)
(* storage calls: a failing getItem or setItem rejects the call.           *)
(***************************************************************************)
\* { ...notification, id: Date.now().toString(), time: ..., isRead: false }
newNotification(notification, now) ==
  [id |-> NumToString(now), time |-> ToLocaleString(now), isRead |-> FALSE]
    @@ notification

\* { ...notification, id, time, isRead: false, userId: userId }
newNotificationForUser(userId, notification, now) ==
  [id |-> NumToString(now), time |-> ToLocaleString(now), isRead |-> FALSE,
   userId |-> userId] @@ notification

\* Variants of unshift that the properties must tell from the real one:
\* the new record lost, and the new record put at the end.
UnshiftDropped(all, n) == all
UnshiftAtEnd(all, n) == all \o <<n>>

\* allNotifications.unshift(newNotification)
Unshift(all, n) == <<n>> \o all

\* A variant of the map of markAsRead that sets isRead to whether the id matches.
MarkOneOnly(all, notificationId) ==
  [i \in 1 .. Len(all) |-> [all[i] EXCEPT !.isRead = (all[i].id = notificationId)]]

\* allNotifications.map(n => n.id === notificationId ? { ...n, isRead: true } : n)
MarkOne(all, notificationId) ==
  [i \in 1 .. Len(all) |->
     IF all[i].id = notificationId THEN [all[i] EXCEPT !.isRead = TRUE] ELSE all[i]]

\* A variant of the map of markAllAsRead that stops after the first entry.
MarkAllFirstOnly(all) ==
  [i \in 1 .. Len(all) |-> IF i = 1 THEN [all[i] EXCEPT !.isRead = TRUE] ELSE all[i]]

\* allNotifications.map(n => ({ ...n, isRead: true }))
MarkAll(all) == [i \in 1 .. Len(all) |-> [all[i] EXCEPT !.isRead = TRUE]]

\* A variant of the removal that drops the first entry, whatever its id.
WithoutHead(all, notificationId) == IF all = <<>> THEN <<>> ELSE Tail(all)

\* allNotifications.filter(n => n.id !== notificationId)
RECURSIVE Without(_, _)
Without(all, notificationId) ==
  IF all = <<>> THEN <<>>
  ELSE IF Head(all).id # notificationId
    THEN <<Head(all)>> \o Without(Tail(all), notificationId)
    ELSE Without(Tail(all), notificationId)

\* addNotification(notification) / addNotificationForUser(userId, notification):
\* the call, the read of the stored list, and the new record put in front.
CallAdd(op, userId, notification, new) ==
  \E p \in ProcIds :
    /\ FreeSlot(p)
    /\ Len(Canonical) < MaxStore
    /\ \E ok \in BOOLEAN :
         IF ok
           THEN /\ procs' = [procs EXCEPT ![p] =
                               [Idle EXCEPT !.op = op, !.pc = "write", !.new = new,
                                            !.input = notification,
                                            !.target = userId, !.pre = Canonical,
                                            !.after = IF ev.kind = "returned"
                                                        THEN ev.value ELSE NoNotif,
                                            !.loc = Unshift(ParseStored(store), new)]]
                /\ ev' = [kind |-> "step", op |-> op, step |-> "read"] @@ NoEv
           ELSE /\ procs' = procs
                /\ ev' = Threw(op, "read")
    /\ UNCHANGED <<clock, lastApiCallTime, user, store, listeners, closures, limit>>

AddNotification ==
  \E notification \in PlainInputs :
    CallAdd("addNotification", Undefined, notification,
            newNotification(notification, clock))

AddNotificationForUser ==
  \E userId \in TargetIds, notification \in TargetInputs :
    CallAdd("addNotificationForUser", userId, notification,
            newNotificationForUser(userId, notification, clock))

\* A variant of the mark methods without the try around the backend call: a
\* PUT that throws or is refused rejects the call before the local update.
CallMarkSurfacing(op, notificationId) ==
  \E p \in ProcIds :
    /\ FreeSlot(p)
    /\ \E out \in (IF ReachesRemote(user) THEN PutOutcomes ELSE {"none"}) :
         IF out \in {"ok", "none"}
           THEN /\ ev' = [kind |-> "step", op |-> op, step |-> "api",
                          id |-> notificationId, contacted |-> ReachesRemote(user),
                          why |-> out, user |-> user] @@ NoEv
                /\ procs' = [procs EXCEPT ![p] =
                               [Idle EXCEPT !.op = op, !.pc = "read",
                                            !.id = notificationId,
                                            !.remote = out, !.pre = Canonical]]
           ELSE /\ ev' = [Threw(op, "api") EXCEPT !.why = out]
                /\ procs' = procs
    /\ UNCHANGED <<clock, lastApiCallTime, user, store, listeners, closures, limit>>

\* markAsRead(notificationId) / markAllAsRead(): the call and the attempt on
\* the backend (markAsReadOnAPI / markAllAsReadOnAPI); whatever it does, a
\* throw included, the local update follows.
CallMark(op, notificationId) ==
  \E p \in ProcIds :
    /\ FreeSlot(p)
    /\ \E out \in (IF ReachesRemote(user) THEN PutOutcomes ELSE {"none"}) :
         /\ ev' = [kind |-> "step", op |-> op, step |-> "api", id |-> notificationId,
                   contacted |-> ReachesRemote(user), why |-> out, user |-> user] @@ NoEv
         /\ procs' = [procs EXCEPT ![p] =
                        [Idle EXCEPT !.op = op, !.pc = "read", !.id = notificationId,
                                     !.remote = out, !.pre = Canonical]]
    /\ UNCHANGED <<clock, lastApiCallTime, user, store, listeners, closures, limit>>

MarkAsRead == \E id \in IdsOf(Canonical) \cup {AbsentId} : CallMark("markAsRead", id)
MarkAllAsRead == CallMark("markAllAsRead", Undefined)

\* The read of the stored list and the update, for the two mark methods.
Read(p) ==
  /\ procs[p].pc = "read"
  /\ \E ok \in BOOLEAN :
       IF ok
         THEN /\ procs' = [procs EXCEPT ![p].pc = "write",
                             ![p].loc = IF procs[p].op = "markAsRead"
                                          THEN MarkOne(ParseStored(store), procs[p].id)
                                          ELSE MarkAll(ParseStored(store))]
              /\ ev' = [kind |-> "step", op |-> procs[p].op, step |-> "read"] @@ NoEv
         ELSE /\ procs' = [procs EXCEPT ![p] = Idle]
              /\ ev' = Threw(procs[p].op, "read")
  /\ UNCHANGED <<clock, lastApiCallTime, user, store, listeners, closures, limit>>

\* A variant of CallDelete that also resets lastApiCallTime.
CallDeleteResetting(notificationId) ==
  \E p \in ProcIds :
    /\ FreeSlot(p)
    /\ \E ok \in BOOLEAN :
         IF ok
           THEN /\ procs' = [procs EXCEPT ![p] =
                               [Idle EXCEPT !.op = "deleteNotification", !.pc = "write",
                                            !.id = notificationId, !.pre = Canonical,
                                            !.loc = Without(ParseStored(store),
                                                            notificationId)]]
                /\ ev' = [kind |-> "step", op |-> "deleteNotification", step |-> "read",
                          id |-> notificationId] @@ NoEv
           ELSE /\ procs' = procs
                /\ ev' = Threw("deleteNotification", "read")
    /\ lastApiCallTime' = 0
    /\ UNCHANGED <<clock, user, store, listeners, closures, limit>>

\* deleteNotification(notificationId): the call, the read and the removal.
CallDelete(notificationId) ==
  \E p \in ProcIds :
    /\ FreeSlot(p)
    /\ \E ok \in BOOLEAN :
         IF ok
           THEN /\ procs' = [procs EXCEPT ![p] =
                               [Idle EXCEPT !.op = "deleteNotification", !.pc = "write",
                                            !.id = notificationId, !.pre = Canonical,
                                            !.loc = Without(ParseStored(store),
                                                            notificationId)]]
                /\ ev' = [kind |-> "step", op |-> "deleteNotification", step |-> "read",
                          id |-> notificationId] @@ NoEv
           ELSE /\ procs' = procs
                /\ ev' = Threw("deleteNotification", "read")
    /\ UNCHANGED <<clock, lastApiCallTime, user, store, listeners, closures, limit>>

DeleteNotification == \E id \in IdsOf(Canonical) \cup {AbsentId} : CallDelete(id)

\* A variant of the write of the append methods that reads the stored list
\* again and puts the new record in front of what is stored now.
WriteRereading(p) ==
  /\ procs[p].pc = "write"
  /\ \E ok \in BOOLEAN :
       IF ok
         THEN /\ store' = Item(JSONStringify(<<procs[p].new>> \o ParseStored(store)))
              /\ procs' = [procs EXCEPT ![p].pc = "notify"]
              /\ ev' = [kind |-> "step", op |-> procs[p].op, step |-> "write",
                        wrote |-> TRUE, id |-> procs[p].id] @@ NoEv
         ELSE /\ store' = store
              /\ procs' = [procs EXCEPT ![p] = Idle]
              /\ ev' = Threw(procs[p].op, "write")
  /\ UNCHANGED <<clock, lastApiCallTime, user, listeners, closures, limit>>

\* A variant of the write that a throwing listener keeps from happening, as
\* if the listeners ran before the list is stored.
WriteAfterListeners(p) ==
  /\ procs[p].pc = "write"
  /\ \E ok \in BOOLEAN :
       IF ok
         THEN /\ store' = IF ListenerThrows THEN store
                          ELSE Item(JSONStringify(procs[p].loc))
              /\ procs' = [procs EXCEPT ![p].pc = "notify"]
              /\ ev' = [kind |-> "step", op |-> procs[p].op, step |-> "write",
                        wrote |-> TRUE, id |-> procs[p].id] @@ NoEv
         ELSE /\ store' = store
              /\ procs' = [procs EXCEPT ![p] = Idle]
              /\ ev' = Threw(procs[p].op, "write")
  /\ UNCHANGED <<clock, lastApiCallTime, user, listeners, closures, limit>>

\* A variant of the write that stores the filtered view of the list.
WriteFiltered(p) ==
  /\ procs[p].pc = "write"
  /\ \E ok \in BOOLEAN :
       IF ok
         THEN /\ store' = Item(JSONStringify(
                             filterNotificationsByUserType(user, procs[p].loc)))
              /\ procs' = [procs EXCEPT ![p].pc = "notify"]
              /\ ev' = [kind |-> "step", op |-> procs[p].op, step |-> "write",
                        wrote |-> TRUE, id |-> procs[p].id] @@ NoEv
         ELSE /\ store' = store
              /\ procs' = [procs EXCEPT ![p] = Idle]
              /\ ev' = Threw(procs[p].op, "write")
  /\ UNCHANGED <<clock, lastApiCallTime, user, listeners, closures, limit>>

\* await AsyncStorage.setItem('notifications', JSON.stringify(...))
Write(p) ==
  /\ procs[p].pc = "write"
  /\ \E ok \in BOOLEAN :
       IF ok
         THEN /\ store' = Item(JSONStringify(procs[p].loc))
              /\ procs' = [procs EXCEPT ![p].pc = "notify"]
              /\ ev' = [kind |-> "step", op |-> procs[p].op, step |-> "write",
                        wrote |-> TRUE, id |-> procs[p].id] @@ NoEv
         ELSE /\ store' = store
              /\ procs' = [procs EXCEPT ![p] = Idle]
              /\ ev' = Threw(procs[p].op, "write")
  /\ UNCHANGED <<clock, lastApiCallTime, user, listeners, closures, limit>>

\* const filtered = await this.filterNotificationsByUserType(...);
\* this.notifyListeners(filtered); return newNotification
Notify(p) ==
  /\ procs[p].pc = "notify"
  /\ LET filteredNotifications == filterNotificationsByUserType(user, procs[p].loc)
     IN ev' = [kind |-> AfterNotify, op |-> procs[p].op, step |-> "notify",
               id |-> procs[p].id, value |-> procs[p].new, pre |-> procs[p].pre,
               input |-> procs[p].input, target |-> procs[p].target,
               after |-> procs[p].after, why |-> procs[p].remote,
               bcast |-> TRUE, blist |-> filteredNotifications,
               calls |-> notifyListeners(filteredNotifications), user |-> user] @@ NoEv
  /\ procs' = [procs EXCEPT ![p] = Idle]
  /\ UNCHANGED <<clock, lastApiCallTime, user, store, listeners, closures, limit>>

\* A variant of clearAllNotifications that stores the empty list under the key.
ClearAllStoresEmptyList ==
  /\ \E p \in ProcIds : FreeSlot(p)
  /\ store' = Item(JSONStringify(<<>>))
  /\ ev' = [kind |-> "returned", op |-> "clearAllNotifications",
            step |-> "remove", pre |-> Canonical, wrote |-> TRUE,
            bcast |-> TRUE, blist |-> <<>>, calls |-> notifyListeners(<<>>),
            user |-> user] @@ NoEv
  /\ UNCHANGED <<clock, lastApiCallTime, user, listeners, closures, procs, limit>>

\* clearAllNotifications(): removeItem, then notifyListeners([]).
ClearAllNotifications ==
  /\ \E p \in ProcIds : FreeSlot(p)
  /\ \E ok \in BOOLEAN :
       IF ok
         THEN /\ store' = NoItem
              /\ ev' = [kind |-> AfterNotify, op |-> "clearAllNotifications",
                        step |-> IF ListenerThrows THEN "notify" ELSE "remove",
                        pre |-> Canonical, wrote |-> TRUE,
                        bcast |-> TRUE, blist |-> <<>>, calls |-> notifyListeners(<<>>),
                        user |-> user] @@ NoEv
         ELSE /\ store' = store
              /\ ev' = Threw("clearAllNotifications", "remove")
  /\ UNCHANGED <<clock, lastApiCallTime, user, listeners, closures, procs, limit>>

\* filterNotificationsByUserType applied to a list, with the identity that
\* getCurrentUser resolves to (or fails to resolve).
FilterNotifications ==
  /\ \E notifications \in FilterInputs :
       ev' = [kind |-> "filtered", op |-> "filterNotificationsByUserType",
              pre |-> notifications,
              list |-> filterNotificationsByUserType(user, notifications),
              user |-> user] @@ NoEv
  /\ UNCHANGED <<clock, lastApiCallTime, user, store, listeners, closures, procs, limit>>

(***************************************************************************)
(* Reference definitions for the properties below.                         *)
(***************************************************************************)
\* The view of `list` for the identity `u`, said without the code's filter:
\* with no user resolved nothing is hidden.
Hidden(u, n) == u.kind = "user" /\ ~matches(u, n)
ViewOf(u, list) == SelectSeq(list, LAMBDA n : ~Hidden(u, n))

AllKeys == {"id", "type", "title", "message", "time", "isRead"} \cup OptionalKeys
\* a and b read the same under every key of `keys`.
SameProps(a, b, keys) == \A k \in keys : Prop(a, k) = Prop(b, k)
\* Two lists that read the same, record by record.
SameList(a, b) ==
  Len(a) = Len(b) /\ \A i \in 1 .. Len(a) : SameProps(a[i], b[i], AllKeys)

\* How often the callback c is registered in ls.
Registrations(ls, c) == Cardinality({i \in 1 .. Len(ls) : ls[i] = c})

AddOps == {"addNotification", "addNotificationForUser"}

(***************************************************************************)
(* C1. Every list delivered to a subscriber holds no notification that the *)
(* identity filter hides from the current identity.                        *)
(* Stated as the claim has it; saveNotifications hands the subscribers the *)
(* unfiltered remote list, so it fails under SpecSub.                      *)
(***************************************************************************)
C1_DeliveredListIsFiltered ==
  \A i \in 1 .. Len(ev.calls) :
    \A n \in Range(ev.calls[i].arg) : ~Hidden(user, n)

(***************************************************************************)
(* C2. No public method lets an error propagate to its caller.             *)
(* Stated as the claim has it; the methods without a try around getItem /  *)
(* setItem / removeItem reject, so it fails under Spec.                    *)
(***************************************************************************)
C2_NoErrorPropagates == ev.kind # "threw"

(***************************************************************************)
(* C3. The ids of the stored notifications are pairwise distinct, whatever *)
(* the clock readings of the append calls.                                 *)
(* Stated as the claim has it; two appends that read the same Date.now()   *)
(* get the same id, so it fails under Spec.                                *)
(***************************************************************************)
C3_StoredIdsDistinct ==
  \A i, j \in 1 .. Len(Canonical) : i # j => Canonical[i].id # Canonical[j].id

(***************************************************************************)
(* C4. append(n) followed by list() returns a list that holds a record     *)
(* equal to n in every field except id and time.                           *)
(* C4_RoundTripAlways is the claim as stated (for every remote outcome and *)
(* every n); C4_RoundTripLocal is the amended claim: it holds when the     *)
(* remote fetch of list() yields empty, the stored list could be read, and *)
(* the filter does not hide n from the identity list() resolves.           *)
(***************************************************************************)
ListAfterAppend ==
  ev.kind = "returned" /\ ev.op = "getNotifications" /\ ev.after # NoNotif

HoldsAppended ==
  \E i \in 1 .. Len(ev.list) :
    SameProps(ev.list[i], ev.after, AllKeys \ {"id", "time"})

C4_RoundTripAlways == ListAfterAppend => HoldsAppended

C4_RoundTripLocal ==
  (ListAfterAppend /\ ev.path \in {"local", "retry"} /\ ~Hidden(user, ev.after))
    => HoldsAppended

C4_Witness ==
  /\ ListAfterAppend /\ ev.path = "local" /\ ~Hidden(user, ev.after)
  /\ user.kind = "user"
  /\ HoldsAppended

(***************************************************************************)
(* C5. When list() gets a non-empty list from the remote fetch, the        *)
(* canonical list afterwards is exactly that remote list and list()        *)
(* returns its identity-filtered view.                                     *)
(* C5_RemoteReplacesAlways is the claim as stated; C5_RemoteReplaces is    *)
(* the amended claim: the canonical list is the remote list when the write *)
(* of saveNotifications succeeded and is left as it was when the write     *)
(* failed; list() returns the filtered remote list in both cases.          *)
(***************************************************************************)
ListFromRemote ==
  ev.kind = "returned" /\ ev.op = "getNotifications" /\ Len(ev.api) > 0

C5_RemoteReplacesAlways ==
  ListFromRemote =>
    (SameList(Canonical, ev.api) /\ SameList(ev.list, ViewOf(user, ev.api)))

C5_RemoteReplaces ==
  ListFromRemote =>
    /\ SameList(ev.list, ViewOf(user, ev.api))
    /\ ev.saved => SameList(Canonical, ev.api)
    /\ ~ev.saved => Canonical = ev.pre

C5_Witness ==
  /\ ListFromRemote /\ ev.saved
  /\ Len(ev.pre) > 0 /\ ev.pre # ev.api
  /\ Len(ev.list) < Len(ev.api)

(***************************************************************************)
(* C6. When the remote fetch of list() yields empty, list() returns the    *)
(* identity-filtered view of the canonical list, and the fetch raises no   *)
(* error.                                                                  *)
(* C6_FallbackAlways is the claim as stated; C6_Fallback is the amended    *)
(* claim: list() returns that view unless the read of the durable store    *)
(* and its one retry both fail, and then it returns the empty list.        *)
(***************************************************************************)
ListFromLocal ==
  ev.kind = "returned" /\ ev.op = "getNotifications" /\ Len(ev.api) = 0

FetchRaisesNothing == (ev.step = "fetch" => ev.kind = "step")

C6_FallbackAlways ==
  /\ ListFromLocal => SameList(ev.list, ViewOf(user, Canonical))
  /\ FetchRaisesNothing

C6_Fallback ==
  /\ ListFromLocal =>
       \/ ev.path \in {"local", "retry"}
            /\ SameList(ev.list, ViewOf(user, Canonical))
       \/ ev.path = "empty" /\ ev.list = <<>>
  /\ FetchRaisesNothing

C6_Witness ==
  /\ ListFromLocal /\ ev.path = "local"
  /\ Len(ev.list) > 0 /\ Len(ev.list) < Len(Canonical)

(***************************************************************************)
(* C7. list() never throws: a failure on the remote-then-local path is     *)
(* followed by one more local read, and when that read fails too list()    *)
(* returns the empty list.                                                 *)
(***************************************************************************)
C7_ListNeverThrows ==
  ev.op = "getNotifications" =>
    /\ ev.kind # "threw"
    /\ (ev.kind = "returned" /\ ev.step = "retry") =>
         \/ ev.path = "retry" /\ SameList(ev.list, ViewOf(user, Canonical))
         \/ ev.path = "empty" /\ ev.list = <<>>

C7_Witness ==
  /\ ev.op = "getNotifications" /\ ev.kind = "returned" /\ ev.step = "retry"
  /\ ev.path = "empty" /\ Len(Canonical) > 0

(***************************************************************************)
(* C8. The first invocation of an unsubscribe closure removes exactly the  *)
(* one registration it was made for; every other registration stays, also  *)
(* another registration of the same callback.                              *)
(* Stated as the claim has it; the closure filters by callback, so it      *)
(* removes every registration of that callback and fails under SpecSub.    *)
(***************************************************************************)
C8_UnsubscribeRemovesOne ==
  (ev.kind = "unsubscribed" /\ ~ev.again) =>
    \A c \in Callbacks :
      Registrations(listeners, c) =
        IF c = closures[ev.closure].listener /\ Registrations(ev.before, c) > 0
          THEN Registrations(ev.before, c) - 1
          ELSE Registrations(ev.before, c)

(***************************************************************************)
(* C9. A second or later invocation of an unsubscribe closure leaves the   *)
(* subscriber set unchanged, whatever happened since the first.            *)
(* Stated as the claim has it; a later invocation removes a registration   *)
(* of the same callback made in between, so it fails under SpecSub.        *)
(***************************************************************************)
C9_UnsubscribeAgainIsNoOp ==
  (ev.kind = "unsubscribed" /\ ev.again) => listeners = ev.before

(***************************************************************************)
(* C10. append (plain or targeted) turns the canonical list L into the new *)
(* record followed by L unchanged; the new record has the caller's fields, *)
(* isRead = false and, for the targeted variant, the given userId; append  *)
(* returns it and broadcasts the filtered view of the new list.            *)
(***************************************************************************)
AppendReturned == ev.kind = "returned" /\ ev.op \in AddOps

C10_AppendPrepends ==
  AppendReturned =>
    /\ Len(Canonical) = Len(ev.pre) + 1
    /\ Tail(Canonical) = ev.pre
    /\ SameProps(Head(Canonical), ev.value, AllKeys)
    /\ ev.value.isRead = FALSE
    /\ \A k \in DOMAIN ev.input \ {"userId"} : ev.value[k] = ev.input[k]
    /\ Prop(ev.value, "userId") =
         IF ev.op = "addNotificationForUser" THEN ev.target
         ELSE Prop(ev.input, "userId")
    /\ ev.bcast /\ SameList(ev.blist, ViewOf(user, Canonical))

C10_Witness ==
  /\ AppendReturned /\ ev.op = "addNotificationForUser"
  /\ Len(ev.pre) > 0
  /\ Len(ev.blist) < Len(Canonical)

(***************************************************************************)
(* C11. After append(a) has completed and then append(b) has completed,    *)
(* with nothing in between, b is before a in the canonical list.           *)
(***************************************************************************)
AppendAfterAppend == AppendReturned /\ ev.after # NoNotif

C11_LaterAppendFirst ==
  AppendAfterAppend =>
    \E i, j \in 1 .. Len(Canonical) :
      /\ i < j
      /\ SameProps(Canonical[i], ev.value, AllKeys)
      /\ SameProps(Canonical[j], ev.after, AllKeys)

C11_Witness ==
  /\ AppendAfterAppend
  /\ ev.value.type # ev.after.type
  /\ ev.value.id # ev.after.id

(***************************************************************************)
(* C12. markRead(id) sets isRead on the entry whose id matches and changes *)
(* nothing else in the canonical list: every other entry, every other      *)
(* field and the order are unchanged; with no such entry the list is       *)
(* unchanged; in both cases the filtered view is broadcast.                *)
(* Stated as the claim has it: at most one entry changes. Two entries can  *)
(* carry the same id (C3), and then both are marked, so it fails under     *)
(* Spec.                                                                   *)
(***************************************************************************)
WithId(list, id) == {i \in 1 .. Len(list) : list[i].id = id}
\* The subsets of the entries with that id that "the entry" can stand for.
TheEntry(list, id) ==
  {t \in SUBSET WithId(list, id) :
     Cardinality(t) = IF WithId(list, id) = {} THEN 0 ELSE 1}

MarkReturned == ev.kind = "returned" /\ ev.op = "markAsRead"

C12_MarkReadTouchesOne ==
  MarkReturned =>
    /\ Len(Canonical) = Len(ev.pre)
    /\ \E t \in TheEntry(ev.pre, ev.id) :
         \A i \in 1 .. Len(ev.pre) :
           Canonical[i] = IF i \in t THEN [ev.pre[i] EXCEPT !.isRead = TRUE]
                          ELSE ev.pre[i]
    /\ ev.bcast /\ SameList(ev.blist, ViewOf(user, Canonical))

(***************************************************************************)
(* C13. The local update of markRead and markAllRead happens whatever the  *)
(* remote call did (success, refused, transport error, no identity, no     *)
(* credential): the remote failure is not surfaced to the caller, and the  *)
(* canonical list ends with isRead = true on the affected entries.         *)
(***************************************************************************)
MarkOpNames == {"markAsRead", "markAllAsRead"}
RemoteOutcomes == PutOutcomes \cup {"none"}

Affected(list, op, id) ==
  {i \in 1 .. Len(list) : op = "markAllAsRead" \/ list[i].id = id}

C13_LocalMarkWhateverRemote ==
  /\ (ev.op \in MarkOpNames /\ ev.step = "api") =>
       /\ ev.kind = "step" /\ ev.why \in RemoteOutcomes
       /\ \E p \in ProcIds : procs[p].op = ev.op /\ procs[p].pc = "read"
  /\ (ev.op \in MarkOpNames /\ ev.kind = "returned") =>
       /\ ev.why \in RemoteOutcomes
       /\ Len(Canonical) = Len(ev.pre)
       /\ \A i \in Affected(ev.pre, ev.op, ev.id) : Canonical[i].isRead

C13_Witness ==
  /\ ev.op \in MarkOpNames /\ ev.kind = "returned"
  /\ ev.why \in {"status", "throws"}
  /\ \E i \in Affected(ev.pre, ev.op, ev.id) : ~ev.pre[i].isRead

(***************************************************************************)
(* C14. markAllRead sets isRead = true on every entry of the canonical     *)
(* list and changes nothing else; run on a list it has already been run    *)
(* on, it leaves that list as it is.                                       *)
(***************************************************************************)
MarkAllReturned == ev.kind = "returned" /\ ev.op = "markAllAsRead"
AllRead(list) == \A i \in 1 .. Len(list) : list[i].isRead

C14_MarkAllIdempotent ==
  MarkAllReturned =>
    /\ Len(Canonical) = Len(ev.pre)
    /\ \A i \in 1 .. Len(ev.pre) : Canonical[i] = [ev.pre[i] EXCEPT !.isRead = TRUE]
    /\ AllRead(ev.pre) => Canonical = ev.pre

C14_Witness ==
  /\ MarkAllReturned
  /\ Len(ev.pre) > 1 /\ AllRead(ev.pre)

(***************************************************************************)
(* C15. delete(id) removes exactly the record with that id and leaves all  *)
(* other records in their order; with no such record the canonical list is *)
(* unchanged; in both cases the filtered list is broadcast.                *)
(* Stated as the claim has it: at most one record goes. Two records can    *)
(* carry the same id (C3), and then both are removed, so it fails under    *)
(* Spec.                                                                   *)
(***************************************************************************)
DeleteReturned == ev.kind = "returned" /\ ev.op = "deleteNotification"

\* list without the entries at the positions in t.
RECURSIVE Dropping(_, _, _)
Dropping(list, t, i) ==
  IF i > Len(list) THEN <<>>
  ELSE (IF i \in t THEN <<>> ELSE <<list[i]>>) \o Dropping(list, t, i + 1)

C15_DeleteRemovesOne ==
  DeleteReturned =>
    /\ \E t \in TheEntry(ev.pre, ev.id) : Canonical = Dropping(ev.pre, t, 1)
    /\ ev.bcast /\ SameList(ev.blist, ViewOf(user, Canonical))

(***************************************************************************)
(* C16. clearAll() leaves the durable key absent and broadcasts the empty  *)
(* list to every subscriber; a list() that follows it and whose remote     *)
(* fetch yields nothing returns the empty list.                            *)
(***************************************************************************)
ClearReturned == ev.kind = "returned" /\ ev.op = "clearAllNotifications"
ListAfterClear ==
  ev.kind = "returned" /\ ev.op = "getNotifications" /\ ev.cleared /\ Len(ev.api) = 0

C16_ClearAllEmpties ==
  /\ ClearReturned =>
       /\ ~store.present /\ Canonical = <<>>
       /\ Len(ev.calls) = Len(listeners)
       /\ \A i \in 1 .. Len(listeners) :
            ev.calls[i].listener = listeners[i] /\ ev.calls[i].arg = <<>>
  /\ ListAfterClear => ev.list = <<>>

C16_Witness ==
  /\ ListAfterClear
  /\ ev.path = "local"
  /\ Len(listeners) > 0

(***************************************************************************)
(* C17. With a resolved identity, a notification whose userId is set (a    *)
(* non-empty string) is in the filtered view iff its userId is the id of   *)
(* the identity, whatever its type, data and title and whatever the role.  *)
(***************************************************************************)
Filtered == ev.kind = "filtered"
Visible(i) == ev.pre[i] \in Range(ev.list)
Targeted(n) == Prop(n, "userId") \notin {Undefined, ""}
SitterUser == user.kind = "user" /\ "pet_sitter" \in {user.userType, user.role}
OwnerUser == user.kind = "user" /\ ~SitterUser

C17_TargetedVisibleToTargetOnly ==
  (Filtered /\ user.kind = "user") =>
    \A i \in 1 .. Len(ev.pre) :
      Targeted(ev.pre[i]) => (Visible(i) <=> ev.pre[i].userId = user.id)

C17_Witness ==
  /\ Filtered /\ OwnerUser /\ Len(ev.pre) = 2
  /\ ev.pre[1].type = "review" /\ ev.pre[1].userId = user.id /\ Visible(1)
  /\ ev.pre[2].type = "message" /\ ~Targeted(ev.pre[2]) /\ Visible(2)

(***************************************************************************)
(* C18. For a pet owner, a notification with no userId is visible iff its  *)
(* type is message or system, or its type is booking and data.status is    *)
(* confirmed or cancelled or the title contains "confirmed" or             *)
(* "cancelled"; reviews and other bookings are hidden.                     *)
(***************************************************************************)
OwnerSees(n) ==
  \/ n.type \in {"message", "system"}
  \/ /\ n.type = "booking"
     /\ \/ Prop(n, "data").kind = "object"
           /\ Prop(n, "data").status \in {"confirmed", "cancelled"}
        \/ Includes(n.title, confirmedWord)
        \/ Includes(n.title, cancelledWord)

C18_OwnerRule ==
  (Filtered /\ OwnerUser) =>
    \A i \in 1 .. Len(ev.pre) :
      ~Targeted(ev.pre[i]) => (Visible(i) <=> OwnerSees(ev.pre[i]))

C18_Witness ==
  /\ Filtered /\ OwnerUser /\ Len(ev.pre) = 2
  /\ ev.pre[1].type = "booking" /\ ~Targeted(ev.pre[1])
  /\ ev.pre[1].data = UndefData /\ ev.pre[1].title = titleCancelled /\ Visible(1)
  /\ ev.pre[2].type = "booking" /\ ~Targeted(ev.pre[2]) /\ ~Visible(2)

(***************************************************************************)
(* C19. When the identity provider resolves no current user, or fails, the *)
(* filter returns its input list unchanged, notifications that carry a     *)
(* userId included.                                                        *)
(***************************************************************************)
C19_NoUserFailsOpen ==
  (Filtered /\ user.kind # "user") => ev.list = ev.pre

C19_Witness ==
  /\ Filtered /\ user.kind = "rejects"
  /\ Len(ev.pre) = 2 /\ Targeted(ev.pre[2]) /\ ev.list = ev.pre

(***************************************************************************)
(* C20. For a pet sitter, every notification with no userId is visible,    *)
(* whatever its type among booking, message, review and system.            *)
(***************************************************************************)
C20_SitterSeesAll ==
  (Filtered /\ SitterUser) =>
    \A i \in 1 .. Len(ev.pre) :
      (~Targeted(ev.pre[i]) /\ ev.pre[i].type \in FilterTypes) => Visible(i)

C20_Witness ==
  /\ Filtered /\ SitterUser /\ user.userType # "pet_sitter"
  /\ Len(ev.pre) = 2
  /\ ev.pre[1].type = "review" /\ ~Targeted(ev.pre[1]) /\ Visible(1)
  /\ Targeted(ev.pre[2]) /\ ~Visible(2)

(***************************************************************************)
(* C21. Two list() calls issued less than 3000 ms apart, with no refresh() *)
(* between them, contact the remote endpoint at most once in total, also   *)
(* when the two calls overlap; the debounced call goes to the stored list  *)
(* without contacting the remote.                                          *)
(***************************************************************************)
ListInFlight(p) == procs[p].op = "getNotifications"
Apart(p, q) ==
  IF procs[p].at >= procs[q].at THEN procs[p].at - procs[q].at
  ELSE procs[q].at - procs[p].at

C21_DebouncedListsContactOnce ==
  /\ \A p, q \in ProcIds :
       (p # q /\ ListInFlight(p) /\ ListInFlight(q)
          /\ procs[p].contacted /\ procs[q].contacted) => Apart(p, q) >= 3000
  /\ (ev.op = "getNotifications" /\ ev.step = "call" /\ ev.why = "debounced") =>
       \E p \in ProcIds :
         ListInFlight(p) /\ procs[p].pc = "local" /\ ~procs[p].contacted

C21_Witness ==
  /\ ev.op = "getNotifications" /\ ev.step = "call" /\ ev.why = "debounced"
  /\ \E p, q \in ProcIds :
       /\ p # q /\ ListInFlight(p) /\ ListInFlight(q)
       /\ procs[p].contacted /\ ~procs[q].contacted /\ procs[q].pc = "local"
       /\ procs[q].at > procs[p].at /\ Apart(p, q) < 3000

(***************************************************************************)
(* C22. refresh() always makes a remote fetch attempt that the debounce    *)
(* check does not skip; in every other respect its result and its effect   *)
(* on the canonical list are those of list().                              *)
(* Stated as the claim has it; when the read of the durable store and the  *)
(* read in the catch block both fail, refresh() rejects where list()       *)
(* returns the empty list (C2), so it fails under Spec.                    *)
(***************************************************************************)
RefreshCalled == ev.op = "refreshNotifications" /\ ev.step = "call"
RefreshEnded ==
  ev.op = "refreshNotifications" /\ ev.kind \in {"returned", "threw"}

\* What list() returns and leaves stored, on each of its paths.
AsListDoes ==
  /\ Len(ev.api) > 0 =>
       /\ ev.path = "remote" /\ SameList(ev.list, ViewOf(user, ev.api))
       /\ ev.saved => SameList(Canonical, ev.api)
       /\ ~ev.saved => Canonical = ev.pre
  /\ Len(ev.api) = 0 =>
       /\ Canonical = ev.pre
       /\ \/ ev.path \in {"local", "retry"}
             /\ SameList(ev.list, ViewOf(user, Canonical))
          \/ ev.path = "empty" /\ ev.list = <<>>

RefreshNotSkipped ==
  RefreshCalled =>
    /\ ev.why # "debounced" /\ lastApiCallTime = clock
    /\ \E p \in ProcIds : procs[p].op = ev.op /\ procs[p].pc = "fetch"

C22_RefreshIsForcedList ==
  /\ RefreshNotSkipped
  /\ RefreshEnded => (ev.kind = "returned" /\ AsListDoes)

(***************************************************************************)
(* C23. unreadCount() returns the number of entries with isRead = false in *)
(* the list that list() returns in the same state, and it fetches, stores  *)
(* and broadcasts as list() does.                                          *)
(***************************************************************************)
CountReturned == ev.kind = "returned" /\ ev.op = "getUnreadCount"

C23_UnreadCountOfList ==
  /\ CountReturned =>
       /\ ev.count = Cardinality({i \in 1 .. Len(ev.list) : ev.list[i].isRead = FALSE})
       /\ AsListDoes
  /\ (ev.op = "getUnreadCount" /\ ev.step = "save" /\ ev.wrote) =>
       ev.bcast /\ SameList(ev.blist, Canonical)

C23_Witness ==
  /\ CountReturned /\ ev.path = "remote" /\ ev.saved
  /\ Len(ev.list) = 2 /\ ev.count = 1

(***************************************************************************)
(* C24. A successful remote response is mapped record by record: id is the *)
(* remote id as a string, time is created_at verbatim, isRead is true iff  *)
(* read_at is present, data is the remote data or null, no userId is set;  *)
(* the mapped list becomes the canonical store, replacing what was there.  *)
(* C24_MappedAndStoredAlways is the claim as stated; C24_MappedAndStored   *)
(* is the amended claim: a non-empty mapped list becomes the canonical     *)
(* store when the write of saveNotifications succeeds, and the store is    *)
(* left as it was when that write fails.                                   *)
(***************************************************************************)
MappedFrom(r, n) ==
  /\ n.id = ToString(r.id)
  /\ n.time = r.created_at
  /\ n.isRead = (r.read_at # Undefined)
  /\ n.data = IF r.data.kind = "object" THEN r.data ELSE NullData
  /\ Prop(n, "userId") = Undefined
  /\ r.type # Undefined => n.type = r.type
  /\ r.title # <<>> => n.title = r.title
  /\ r.message # Undefined => n.message = r.message

SuccessfulResponse ==
  ev.step = "fetch" /\ ev.contacted
    /\ ev.resp.kind = "body" /\ ev.resp.success /\ ev.resp.hasList

FetchMapped ==
  SuccessfulResponse =>
    /\ Len(ev.api) = Len(ev.resp.notifications)
    /\ \A i \in 1 .. Len(ev.api) : MappedFrom(ev.resp.notifications[i], ev.api[i])

RemoteListReturned == ev.kind = "returned" /\ ev.op \in GetOps /\ Len(ev.api) > 0

C24_MappedAndStoredAlways ==
  /\ FetchMapped
  /\ RemoteListReturned => SameList(Canonical, ev.api)

C24_MappedAndStored ==
  /\ FetchMapped
  /\ RemoteListReturned =>
       IF ev.saved THEN SameList(Canonical, ev.api) ELSE Canonical = ev.pre

C24_Witness ==
  /\ RemoteListReturned /\ ev.saved
  /\ Len(ev.pre) > 0 /\ Len(ev.api) = 2
  /\ \A i \in 1 .. Len(ev.pre) : \A j \in 1 .. Len(Canonical) :
       ev.pre[i].id # Canonical[j].id
  /\ Canonical[1].data = NullData /\ ~Canonical[1].isRead
  /\ Canonical[2].data.kind = "object" /\ Canonical[2].isRead

(***************************************************************************)
(* C25. Two operations issued concurrently on the canonical list can lose  *)
(* an update: each write stores the list as its own operation read it,     *)
(* with its own change, whatever has been written since that read; a state *)
(* is reachable in which two appends have completed and the record of one  *)
(* is absent from the canonical list.                                      *)
(***************************************************************************)
AppendWrote == ev.step = "write" /\ ev.wrote /\ ev.op \in AddOps

C25_WriteStoresOwnRead ==
  AppendWrote =>
    \E p \in ProcIds :
      /\ procs[p].op = ev.op /\ procs[p].pc = "notify"
      /\ SameList(Canonical, <<procs[p].new>> \o procs[p].pre)

\* Both appends have returned, and the record this one returned is not stored:
\* the one stored is the other append's.
C25_Witness ==
  /\ AppendReturned /\ \A p \in ProcIds : procs[p].pc = "idle"
  /\ ev.pre = <<>> /\ Len(Canonical) = 1
  /\ Canonical[1].type # ev.value.type
  /\ \E n \in PlainInputs \cup TargetInputs :
       SameProps(Canonical[1], n, {"type", "title", "message"})

(***************************************************************************)
(* C26. A notification leaves the canonical list only through delete of    *)
(* its id or through clearAll, and a stored notification changes only by   *)
(* its isRead field being set; no other operation removes or alters one.   *)
(* C26_LeavesByDeleteOrClearOnly is the claim as stated;                   *)
(* C26_LeavesByDeleteClearOrReplace is the amended claim, which adds the   *)
(* third way out: list(), refresh() and unreadCount() replace the whole    *)
(* canonical list when the remote fetch yields a non-empty list.           *)
(***************************************************************************)
\* n is still in list: unaltered, or (after a mark method) with isRead set.
Survives(n, list, op) ==
  \E i \in 1 .. Len(list) :
    /\ SameProps(list[i], n, AllKeys \ {"isRead"})
    /\ IF op \in MarkOpNames THEN n.isRead => list[i].isRead
       ELSE list[i].isRead = n.isRead

Removed(n) ==
  \/ ev.op = "deleteNotification" /\ n.id = ev.id
  \/ ev.op = "clearAllNotifications"

C26_LeavesByDeleteOrClearOnly ==
  ev.kind = "returned" =>
    \A i \in 1 .. Len(ev.pre) :
      Survives(ev.pre[i], Canonical, ev.op) \/ Removed(ev.pre[i])

C26_LeavesByDeleteClearOrReplace ==
  ev.kind = "returned" =>
    \A i \in 1 .. Len(ev.pre) :
      \/ Survives(ev.pre[i], Canonical, ev.op)
      \/ Removed(ev.pre[i])
      \/ ev.op \in GetOps /\ ev.saved /\ SameList(Canonical, ev.api)

C26_Witness ==
  /\ ev.kind = "returned" /\ ev.op = "deleteNotification"
  /\ Len(ev.pre) = 2 /\ Len(Canonical) = 1
  /\ \E i \in 1 .. 2 : ev.pre[i].id # ev.id /\ Survives(ev.pre[i], Canonical, ev.op)

(***************************************************************************)
(* C27. No operation persists an identity-filtered list as the canonical   *)
(* list: after append, markRead, markAllRead or delete under identity U,   *)
(* every notification that was stored and is hidden from U is still        *)
(* stored, apart from what the delete targets.                             *)
(***************************************************************************)
MutatorReturned ==
  ev.kind = "returned" /\ ev.op \in AddOps \cup MarkOpNames \cup {"deleteNotification"}

C27_HiddenStayStored ==
  MutatorReturned =>
    \A i \in 1 .. Len(ev.pre) :
      Hidden(ev.user, ev.pre[i]) =>
        \/ Survives(ev.pre[i], Canonical, ev.op)
        \/ ev.op = "deleteNotification" /\ ev.pre[i].id = ev.id

C27_Witness ==
  /\ MutatorReturned /\ ev.op = "markAllAsRead"
  /\ \E i \in 1 .. Len(ev.pre) :
       Hidden(ev.user, ev.pre[i]) /\ Survives(ev.pre[i], Canonical, ev.op)
  /\ Len(ev.blist) > 0

(***************************************************************************)
(* C28. One broadcast invokes the subscriber callbacks in the order in     *)
(* which they were registered, each with the same full filtered list.      *)
(* Stated as the claim has it. Order and sameness hold, but the list that  *)
(* saveNotifications broadcasts is the unfiltered remote list (C1), so it  *)
(* fails under SpecSub.                                                    *)
(***************************************************************************)
InRegistrationOrder ==
  /\ Len(ev.calls) = Len(listeners)
  /\ \A i \in 1 .. Len(listeners) :
       ev.calls[i].listener = listeners[i] /\ ev.calls[i].arg = ev.blist

C28_BroadcastOrderedFiltered ==
  ev.bcast => (InRegistrationOrder /\ SameList(ev.blist, ViewOf(user, Canonical)))

(***************************************************************************)
(* C29. In every mutating operation the write of the canonical list        *)
(* completes before any subscriber callback of that operation runs: when   *)
(* the callbacks run, also one that throws, the mutation is already        *)
(* stored, and no broadcast is made for a mutation whose write failed.     *)
(***************************************************************************)
CallbacksRan == ev.bcast /\ Len(ev.calls) > 0

C29_StoredBeforeCallbacks ==
  /\ (CallbacksRan /\ ev.step = "notify" /\ ev.op \in AddOps) =>
       /\ Len(Canonical) > 0
       /\ SameProps(Head(Canonical), ev.value, AllKeys)
  /\ (CallbacksRan /\ ev.step = "save") => SameList(Canonical, ev.blist)
  /\ (CallbacksRan /\ ev.op = "clearAllNotifications") => ~store.present
  /\ (ev.step \in {"read", "write", "remove"} /\ ev.kind = "threw") =>
       ~ev.bcast /\ ev.calls = <<>>
  /\ (ev.step = "save" /\ ~ev.wrote) => ~ev.bcast /\ ev.calls = <<>>

C29_Witness ==
  /\ CallbacksRan /\ ev.step = "notify" /\ ev.op \in AddOps
  /\ ev.kind = "threw"
  /\ Len(ev.calls) < Len(listeners)
  /\ SameProps(Head(Canonical), ev.value, AllKeys)
  /\ Len(ev.pre) < Len(Canonical)

(***************************************************************************)
(* C30. The remote fetch contacts the remote endpoint only when the        *)
(* identity is resolved and that identity supplies a bearer credential.    *)
(* Stated as the claim has it; for the ids '5' and '21' a token written in *)
(* the code stands in for the missing one, so it fails under Spec.         *)
(***************************************************************************)
C30_ContactNeedsOwnCredential ==
  (ev.step = "fetch" /\ ev.contacted) =>
    (ev.user.kind = "user" /\ ev.user.token \notin {Undefined, ""})

(***************************************************************************)
(* C31. addNotification, addNotificationForUser, deleteNotification and    *)
(* clearAllNotifications never contact the remote endpoint, and no step of *)
(* theirs changes lastApiCallTime or the registered listeners.             *)
(***************************************************************************)
LocalOnlyOps == AddOps \cup {"deleteNotification", "clearAllNotifications"}

C31_LocalOpsLeaveRemoteAlone ==
  [][ev'.op \in LocalOnlyOps =>
       /\ lastApiCallTime' = lastApiCallTime
       /\ listeners' = listeners
       /\ closures' = closures
       /\ ev'.step # "fetch" /\ ~ev'.contacted]_vars

\* deleteNotification has returned, after an earlier fetch attempt and with
\* somebody subscribed.
C31_Witness ==
  /\ DeleteReturned
  /\ lastApiCallTime > 0
  /\ Len(listeners) > 0 /\ Len(ev.calls) > 0

(***************************************************************************)
(* C32. The list filterNotificationsByUserType returns is its input with   *)
(* some entries left out: every entry returned is an entry of the input,   *)
(* unmodified, in the same relative order, none added and none twice.      *)
(***************************************************************************)
C32_FilterKeepsOrder ==
  Filtered =>
    \E t \in SUBSET (1 .. Len(ev.pre)) : ev.list = Dropping(ev.pre, t, 1)

\* Of two different notifications the first is hidden and the second is kept.
C32_Witness ==
  /\ Filtered /\ user.kind = "user"
  /\ Len(ev.pre) = 2 /\ ev.pre[1] # ev.pre[2]
  /\ ev.list = <<ev.pre[2]>>

(***************************************************************************)
(* C33. When the fetch of getNotifications or refreshNotifications yields  *)
(* the empty list, the call goes on with the local read: that read and its *)
(* retry write nothing to the durable store, invoke no listener and leave  *)
(* the registered listeners alone, and when the call ends the canonical    *)
(* list is the one it found: an empty remote result erases nothing.        *)
(***************************************************************************)
ListOrRefresh == {"getNotifications", "refreshNotifications"}

FallbackEnded ==
  ev.kind \in {"returned", "threw"} /\ ev.op \in ListOrRefresh /\ Len(ev.api) = 0

C33_FallbackWritesNothing ==
  /\ [][(ev'.op \in ListOrRefresh /\ ev'.step \in {"local", "retry"}) =>
          /\ store' = store
          /\ listeners' = listeners /\ closures' = closures
          /\ ~ev'.wrote /\ ~ev'.bcast /\ ev'.calls = <<>>]_vars
  /\ [](FallbackEnded /\ ev.kind = "returned" => (Canonical = ev.pre /\ ~ev.saved))

\* The remote gave nothing, somebody is subscribed, and the list found in the
\* durable store is still there and is returned.
C33_Witness ==
  /\ FallbackEnded /\ ev.kind = "returned" /\ ev.path = "local"
  /\ Len(listeners) > 0
  /\ Len(ev.pre) > 0 /\ Canonical = ev.pre /\ Len(ev.list) > 0

(***************************************************************************)
(* C34. A getNotifications whose fetch is in flight while an append or a   *)
(* delete completes stores the remote list over whatever the durable store *)
(* holds when the fetch comes back non-empty: the canonical list is then   *)
(* the remote list, and what the interleaved call had changed is gone.     *)
(***************************************************************************)
SaveStep == ev.step = "save" /\ ev.op \in ListOrRefresh
RemoteStored == SaveStep /\ ev.wrote

\* The entries written to the durable store since the call was made.
Interleaved == {n \in Range(ev.over) : n \notin Range(ev.pre)}

\* The claim as it stands: the remote list is stored whenever the fetch comes
\* back non-empty.
C34_FetchInFlightAlwaysOverwrites ==
  SaveStep =>
    /\ SameList(Canonical, ev.blist)
    /\ \A n \in Interleaved : n.id \notin IdsOf(ev.blist) => n.id \notin IdsOf(Canonical)

\* The same, said of a write that succeeds; a write that fails is swallowed
\* and leaves what the interleaved call stored.
C34_FetchInFlightOverwrites ==
  /\ RemoteStored =>
       /\ SameList(Canonical, ev.blist)
       /\ \A n \in Interleaved :
            n.id \notin IdsOf(ev.blist) => n.id \notin IdsOf(Canonical)
  /\ (SaveStep /\ ~ev.wrote) => Canonical = ev.over

\* An append read, wrote and returned between the call of getNotifications
\* and its write of the remote list; the appended notification is gone.
C34_Witness ==
  /\ RemoteStored
  /\ Len(ev.over) = Len(ev.pre) + 1 /\ Tail(ev.over) = ev.pre
  /\ Head(ev.over).id \notin IdsOf(Canonical)
  /\ \A q \in ProcIds : procs[q].op \in {"idle", "getNotifications"}

(***************************************************************************)
(* C35. Once every call has completed, the list the listeners were handed  *)
(* last by a method that changes the canonical list is the view of the     *)
(* final canonical list for the current user, however the calls             *)
(* interleaved.                                                            *)
(***************************************************************************)
AllCompleted == \A p \in ProcIds : procs[p] = Idle

C35_LastDeliveryIsFinalView ==
  (ev.kind = "returned" /\ ev.op \in AddOps \cup {"deleteNotification"} /\ AllCompleted) =>
    \A i \in 1 .. Len(ev.calls) : SameList(ev.calls[i].arg, ViewOf(user, Canonical))

(***************************************************************************)
(* C36. lastApiCallTime is set when a fetch passes the debounce check,     *)
(* before the user and the token are resolved and before makeApiCall: it   *)
(* holds the time of the attempt while the fetch is in flight and after    *)
(* the fetch has given up or failed, so a getNotifications less than       *)
(* 3000 ms after such an attempt is debounced all the same.                *)
(***************************************************************************)
Attempted(p) == ListInFlight(p) /\ procs[p].attempted

C36_TimestampSetAtTheCheck ==
  /\ \A p \in ProcIds : Attempted(p) => lastApiCallTime >= procs[p].at
  /\ \A p, q \in ProcIds :
       (p # q /\ Attempted(p) /\ Attempted(q)) => Apart(p, q) >= 3000
  /\ (ev.op = "getNotifications" /\ ev.step = "call" /\ ev.why # "debounced") =>
       /\ lastApiCallTime = clock
       /\ \E p \in ProcIds : Attempted(p) /\ procs[p].pc = "fetch" /\ procs[p].at = clock

\* One call passed the check and its fetch gave up before makeApiCall; a call
\* made 1 ms later has been debounced.
C36_Witness ==
  /\ ev.op = "getNotifications" /\ ev.step = "call" /\ ev.why = "debounced"
  /\ \E p, q \in ProcIds :
       /\ p # q /\ Attempted(p) /\ ListInFlight(q)
       /\ procs[p].pc = "local" /\ ~procs[p].contacted
       /\ ~procs[q].attempted /\ procs[q].pc = "local"
       /\ procs[q].at > procs[p].at /\ Apart(p, q) < 3000

(***************************************************************************)
(* C37. refreshNotifications resets lastApiCallTime to 0 and its own fetch *)
(* sets it again at once: during and after a refresh lastApiCallTime is    *)
(* the time of that fetch attempt or a later one, never 0, and a           *)
(* getNotifications called less than 3000 ms after the refresh is          *)
(* debounced and does not reach makeApiCall.                               *)
(***************************************************************************)
RefreshInFlight(p) == procs[p].op = "refreshNotifications"

C37_RefreshLeavesItsOwnTime ==
  /\ (ev.op = "refreshNotifications" /\ ev.step = "call") =>
       ev.why # "debounced" /\ lastApiCallTime = clock
  /\ \A p \in ProcIds : RefreshInFlight(p) => lastApiCallTime >= procs[p].at
  /\ (ev.op = "refreshNotifications" /\ ev.kind = "returned") =>
       lastApiCallTime >= ev.at /\ ev.at > 0
  /\ (/\ ev.op = "getNotifications" /\ ev.step = "call"
      /\ \E p \in ProcIds : RefreshInFlight(p) /\ clock - procs[p].at < 3000) =>
       /\ ev.why = "debounced"
       /\ \E q \in ProcIds :
            /\ ListInFlight(q) /\ procs[q].at = clock
            /\ ~procs[q].attempted /\ ~procs[q].contacted /\ procs[q].pc = "local"

\* A refresh was called, and 1 ms later a getNotifications has been debounced.
C37_Witness ==
  /\ ev.op = "getNotifications" /\ ev.step = "call" /\ ev.why = "debounced"
  /\ \E p, q \in ProcIds :
       /\ RefreshInFlight(p) /\ ListInFlight(q)
       /\ procs[q].at = procs[p].at + 1 /\ lastApiCallTime = procs[p].at
       /\ ~procs[q].attempted

(***************************************************************************)
(* C38. addNotification, addNotificationForUser, markAsRead, markAllAsRead *)
(* and deleteNotification never turn isRead of a stored notification from  *)
(* true to false: every read entry they keep is stored as it was. A list   *)
(* or a refresh that stores no remote list leaves the canonical list as it *)
(* found it, so only a stored remote list makes a notification that was    *)
(* marked read unread again.                                               *)
(***************************************************************************)
ReadOnes(list) == SelectSeq(list, LAMBDA n : n.isRead)

KeptRead ==
  CASE ev.op \in AddOps ->
         /\ Len(Canonical) = Len(ev.pre) + 1
         /\ \A i \in 1 .. Len(ev.pre) : ev.pre[i].isRead => Canonical[i + 1] = ev.pre[i]
    [] ev.op \in MarkOpNames ->
         /\ Len(Canonical) = Len(ev.pre)
         /\ \A i \in 1 .. Len(ev.pre) : ev.pre[i].isRead => Canonical[i] = ev.pre[i]
    [] OTHER ->
         ReadOnes(Canonical) = ReadOnes(SelectSeq(ev.pre, LAMBDA n : n.id # ev.id))

C38_RemoteUnreads ==
  /\ ev.kind = "returned" /\ ev.op \in GetOps /\ ev.saved
  /\ \E i \in 1 .. Len(ev.pre) : \E j \in 1 .. Len(Canonical) :
       /\ ev.pre[i].isRead /\ ~Canonical[j].isRead
       /\ SameProps(Canonical[j], ev.pre[i], AllKeys \ {"isRead"})

RefreshAfterDelete ==
  /\ ev.kind = "returned" /\ ev.op = "refreshNotifications"
  /\ ev.id # Undefined /\ ev.id \in IdsOf(ev.api)

\* The claim as it stands.
C39_FetchAlwaysRestores ==
  /\ DeleteReturned => ev.id \notin IdsOf(Canonical)
  /\ RefreshAfterDelete => ev.id \in IdsOf(Canonical)

\* The same, said of a remote list whose write succeeds; a write that fails
\* is swallowed and leaves the list as deleteNotification stored it.
C39_FetchRestoresDeleted ==
  /\ DeleteReturned => ev.id \notin IdsOf(Canonical)
  /\ (RefreshAfterDelete /\ ev.saved) =>
       ev.id \in IdsOf(Canonical) /\ IdsOf(ev.api) \subseteq IdsOf(Canonical)
  /\ (RefreshAfterDelete /\ ~ev.saved) => Canonical = ev.pre

\* The notification was stored and deleted, and it is stored again.
C39_Witness ==
  /\ RefreshAfterDelete /\ ev.saved
  /\ ev.id \notin IdsOf(ev.pre) /\ ev.id \in IdsOf(Canonical)

(***************************************************************************)
(* The service with its callers and its environment.                       *)
(***************************************************************************)
GetNotifications == CallGet("getNotifications")
RefreshNotifications == CallGet("refreshNotifications")
GetUnreadCount == CallGet("getUnreadCount")

\* A step of a call in flight.
Continue ==
  \E p \in ProcIds :
    \/ Fetch(p)
    \/ Save(p)
    \/ FilterReturn(p)
    \/ Local(p)
    \/ Retry(p)
    \/ Read(p)
    \/ Write(p)
    \/ Notify(p)

\* Storage, remote feed and identity, with nobody subscribed.
Next ==
  \/ Tick
  \/ SetUser
  \/ GetNotifications
  \/ RefreshNotifications
  \/ GetUnreadCount
  \/ AddNotification
  \/ AddNotificationForUser
  \/ MarkAsRead
  \/ MarkAllAsRead
  \/ DeleteNotification
  \/ ClearAllNotifications
  \/ Continue

Spec == Init /\ [][Next]_vars

\* Subscriptions, and the methods that broadcast to the subscribers.
NextSub ==
  \/ Subscribe
  \/ Unsubscribe
  \/ SetUser
  \/ GetNotifications
  \/ RefreshNotifications
  \/ AddNotificationForUser
  \/ ClearAllNotifications
  \/ \E p \in ProcIds :
       Fetch(p) \/ Save(p) \/ FilterReturn(p) \/ Local(p) \/ Retry(p) \/ Write(p) \/ Notify(p)

SpecSub == Init /\ [][NextSub]_vars

\* The identity filter applied to lists of notifications of every shape.
NextFilter == FilterNotifications

SpecFilter == InitFilter /\ [][NextFilter]_vars

\* Subscribers that throw, and the methods that write and then broadcast.
NextFail ==
  \/ Subscribe
  \/ SubscribeFailing
  \/ GetNotifications
  \/ AddNotification
  \/ AddNotificationForUser
  \/ ClearAllNotifications
  \/ \E p \in ProcIds :
       Fetch(p) \/ Save(p) \/ FilterReturn(p) \/ Local(p) \/ Retry(p) \/ Write(p) \/ Notify(p)

SpecFail == Init /\ [][NextFail]_vars

\* Two calls in flight on the canonical list: the two append methods.
NextConc ==
  \/ AddNotification
  \/ AddNotificationForUser
  \/ \E p \in ProcIds : Write(p) \/ Notify(p)

SpecConc == InitConc /\ [][NextConc]_vars

\* Two list() calls in flight, and the clock.
NextDebounce ==
  \/ Tick
  \/ GetNotifications
  \/ \E p \in ProcIds :
       Fetch(p) \/ Save(p) \/ FilterReturn(p) \/ Local(p) \/ Retry(p)

SpecDebounce == InitConc /\ [][NextDebounce]_vars

\* The methods that work on the durable store only, with a subscriber and
\* after a list().
NextLocal ==
  \/ Subscribe
  \/ GetNotifications
  \/ AddNotification
  \/ AddNotificationForUser
  \/ DeleteNotification
  \/ ClearAllNotifications
  \/ \E p \in ProcIds :
       Fetch(p) \/ Save(p) \/ FilterReturn(p) \/ Local(p) \/ Retry(p) \/ Write(p) \/ Notify(p)

SpecLocal == Init /\ [][NextLocal]_vars

\* A list() in flight next to an append or a delete.
NextRace ==
  \/ GetNotifications
  \/ AddNotification
  \/ DeleteNotification
  \/ \E p \in ProcIds :
       Fetch(p) \/ Save(p) \/ FilterReturn(p) \/ Local(p) \/ Retry(p) \/ Write(p) \/ Notify(p)

SpecRace == InitConc /\ [][NextRace]_vars

\* Two calls that change the canonical list in flight, and a subscriber.
NextStale ==
  \/ Subscribe
  \/ AddNotification
  \/ DeleteNotification
  \/ \E p \in ProcIds : Write(p) \/ Notify(p)

SpecStale == InitConc /\ [][NextStale]_vars

\* A refresh() and a list() in flight, and the clock.
NextRefresh ==
  \/ Tick
  \/ GetNotifications
  \/ RefreshNotifications
  \/ \E p \in ProcIds :
       Fetch(p) \/ Save(p) \/ FilterReturn(p) \/ Local(p) \/ Retry(p)

SpecRefresh == InitConc /\ [][NextRefresh]_vars

====
